---- MODULE Spec2Model ----
(***************************************************************************)
(* State-machine model of the MineSweeper class of src/mine_sweeper.py:    *)
(* construction with a random mine layout, and play(x, y), which runs the  *)
(* work-list flood fill of _sweep and then evaluates the win/loss flags.   *)
(***************************************************************************)
EXTENDS Integers, Sequences, FiniteSets, TLC

\* Largest board side explored (the program's default is 50).
MaxSize == 3

VARIABLES
    board_size,           \* self._board_size
    number_of_mines,      \* self._number_of_mines
    game_board,           \* self._game_board: cell -> BOOLEAN (TRUE = mine)
    visualization_board,  \* self._visualization_board: cell -> "", "M", "0".."8"
    seen_cells,           \* self._seen_cells
    has_stepped_on_mine,  \* self._has_stepped_on_mine
    game_over,            \* self._game_over
    output,               \* the messages printed by the latest play call, in order
    pc,                   \* where the running code stands
    indices,              \* __main__: the tokens of the line read last
    branch,               \* __main__: the path the last step took
    cells_to_sweep,       \* _sweep: the work list, when the loop is run step by step
    accepted              \* the number of reveals accepted while the game was in progress

vars == <<board_size, number_of_mines, game_board, visualization_board,
          seen_cells, has_stepped_on_mine, game_over, output,
          pc, indices, branch, cells_to_sweep, accepted>>

\* What lies outside the MineSweeper object, as it is when play is called directly.
driver == <<pc, indices, branch, cells_to_sweep, accepted>>
driver_idle ==
    /\ pc = "idle"
    /\ indices = << >>
    /\ branch = "none"
    /\ cells_to_sweep = << >>
    /\ accepted = 0

\* The coordinates of an n x n board (all_indices of __init__).
all_indices(n) == (0 .. n - 1) \X (0 .. n - 1)

\* Offsets of the adjacent cells, in the order the loop visits them.
delta_x == << -1, -1, -1, 0, 0, 1, 1, 1 >>
delta_y == << -1, 0, 1, -1, 1, -1, 0, 1 >>

\* str(count) for the counts a cell can have.
str(k) == << "0", "1", "2", "3", "4", "5", "6", "7", "8" >>[k + 1]

\* The negation of the range test of _sweep and of its neighbour loop.
in_range(n, x, y) == ~(x < 0 \/ x >= n \/ y < 0 \/ y >= n)

\* The test `not self._visualization_board[x][y] == ""` that rejects a click.
already_visited_nocheck(vb, x, y) == FALSE
already_visited(vb, x, y) == ~(vb[<<x, y>>] = "")

\* valid_neighbors as the loop over range(8) builds it.
valid_neighbors_seven(n, x, y) ==
    SelectSeq([i \in 1 .. 7 |-> <<x + delta_x[i], y + delta_y[i]>>],
              LAMBDA c : in_range(n, c[1], c[2]))
valid_neighbors(n, x, y) ==
    SelectSeq([i \in 1 .. 8 |-> <<x + delta_x[i], y + delta_y[i]>>],
              LAMBDA c : in_range(n, c[1], c[2]))

\* count, accumulated over the valid neighbours (a bool adds 0 or 1).
count_mines_first_only(gb, nbrs) ==
    IF nbrs = << >> THEN 0 ELSE (IF gb[Head(nbrs)] THEN 1 ELSE 0)
RECURSIVE count_mines(_, _)
count_mines(gb, nbrs) ==
    IF nbrs = << >> THEN 0
    ELSE (IF gb[Head(nbrs)] THEN 1 ELSE 0) + count_mines(gb, Tail(nbrs))

\* The loop that shows ALL mines' positions after stepping on one.
reveal_all_mines_noif(gb, vb) == [d \in DOMAIN vb |-> "M"]
reveal_all_mines_hide(gb, vb) == [d \in DOMAIN vb |-> IF gb[d] THEN "M" ELSE ""]
reveal_all_mines(gb, vb) == [d \in DOMAIN vb |-> IF gb[d] THEN "M" ELSE vb[d]]

\* The mine branch of the loop: set the flag, show the mines, return.
step_on_mine_noflag(gb, st, rest) ==
    [st EXCEPT !.vb = reveal_all_mines(gb, st.vb), !.cells_to_sweep = rest]
step_on_mine(gb, st, rest) ==
    [st EXCEPT !.stepped = TRUE,
               !.vb = reveal_all_mines(gb, st.vb),
               !.cells_to_sweep = rest]

\* The automatic click: append every neighbour that is still "".
push_neighbors_replace(vb, stack, nbrs) ==
    SelectSeq(nbrs, LAMBDA c : vb[c] = "")
push_neighbors(vb, stack, nbrs) ==
    stack \o SelectSeq(nbrs, LAMBDA c : vb[c] = "")

\* The safe branch of the loop for a cell that is still "".
sweep_cell_nocount(n, gb, st, c, rest) ==
    LET nbrs == valid_neighbors(n, c[1], c[2])
        count == count_mines(gb, nbrs)
    IN  IF ~(count = 0)
        THEN [st EXCEPT !.vb = [st.vb EXCEPT ![c] = str(count)],
                        !.seen = st.seen + 1,
                        !.cells_to_sweep = rest]
        ELSE LET vb0 == [st.vb EXCEPT ![c] = "0"]
             IN  [st EXCEPT !.vb = vb0,
                            !.cells_to_sweep = push_neighbors(vb0, rest, nbrs)]
sweep_cell(n, gb, st, c, rest) ==
    LET nbrs == valid_neighbors(n, c[1], c[2])
        count == count_mines(gb, nbrs)
    IN  IF ~(count = 0)
        THEN [st EXCEPT !.vb = [st.vb EXCEPT ![c] = str(count)],
                        !.seen = st.seen + 1,
                        !.cells_to_sweep = rest]
        ELSE LET vb0 == [st.vb EXCEPT ![c] = "0"]
             IN  [st EXCEPT !.vb = vb0,
                            !.seen = st.seen + 1,
                            !.cells_to_sweep = push_neighbors(vb0, rest, nbrs)]

\* The cell that cells_to_sweep.pop() yields: the last one.
popped(st) == st.cells_to_sweep[Len(st.cells_to_sweep)]

\* One iteration of the while loop on a non-empty work list: pop the last
\* element, then the mine branch, the `continue`, or the safe branch.
loop_body_requeue(n, gb, st) ==
    LET k == Len(st.cells_to_sweep)
        c == st.cells_to_sweep[k]
        rest == SubSeq(st.cells_to_sweep, 1, k - 1)
    IN  IF gb[c] THEN step_on_mine(gb, st, rest)
        ELSE IF ~(st.vb[c] = "")
             THEN [st EXCEPT !.cells_to_sweep = << c >> \o rest]
             ELSE sweep_cell(n, gb, st, c, rest)
loop_body(n, gb, st) ==
    LET k == Len(st.cells_to_sweep)
        c == st.cells_to_sweep[k]
        rest == SubSeq(st.cells_to_sweep, 1, k - 1)
    IN  IF gb[c] THEN step_on_mine(gb, st, rest)
        ELSE IF ~(st.vb[c] = "")
             THEN [st EXCEPT !.cells_to_sweep = rest]
             ELSE sweep_cell(n, gb, st, c, rest)

\* while cells_to_sweep: run the body; the mine branch returns at once.
RECURSIVE sweep_loop(_, _, _)
sweep_loop(n, gb, st) ==
    IF st.cells_to_sweep = << >> THEN st
    ELSE IF gb[popped(st)] THEN loop_body(n, gb, st)
    ELSE sweep_loop(n, gb, loop_body(n, gb, st))

\* _sweep(x, y) from the given fields: the fields it leaves, what it printed,
\* and the work list it held when it returned.
sweep(n, gb, vb, seen, stepped, x, y) ==
    LET st0 == [vb |-> vb, seen |-> seen, stepped |-> stepped,
                cells_to_sweep |-> << >>, out |-> << >>]
    IN  IF ~in_range(n, x, y)
        THEN [st0 EXCEPT !.out = << "Invalid entries." >>]
        ELSE IF already_visited(vb, x, y)
        THEN [st0 EXCEPT !.out = << "Cell already visited." >>]
        ELSE sweep_loop(n, gb, [st0 EXCEPT !.cells_to_sweep = << <<x, y>> >>])

\* The two tests at the end of play.
lost_test_never(stepped) == FALSE
lost_test(stepped) == stepped
won_test_offbyone(seen, n, m) == seen = n * n - m - 1
won_test(seen, n, m) == seen = n * n - m

\* Construction: random.sample picks number_of_mines distinct cells.
Init_with_replacement ==
    /\ board_size \in 1 .. MaxSize
    /\ number_of_mines \in 0 .. board_size * board_size
    /\ game_board \in { g \in [all_indices(board_size) -> BOOLEAN] :
                          LET k == Cardinality({c \in DOMAIN g : g[c]})
                          IN  k <= number_of_mines /\ (number_of_mines > 0 => k > 0) }
    /\ visualization_board = [c \in all_indices(board_size) |-> ""]
    /\ seen_cells = 0
    /\ has_stepped_on_mine = FALSE
    /\ game_over = FALSE
    /\ output = << >>
    /\ driver_idle
Init ==
    /\ board_size \in 1 .. MaxSize
    /\ number_of_mines \in 0 .. board_size * board_size
    /\ game_board \in { g \in [all_indices(board_size) -> BOOLEAN] :
                          Cardinality({c \in DOMAIN g : g[c]}) = number_of_mines }
    /\ visualization_board = [c \in all_indices(board_size) |-> ""]
    /\ seen_cells = 0
    /\ has_stepped_on_mine = FALSE
    /\ game_over = FALSE
    /\ output = << >>
    /\ driver_idle

\* play(x, y): the whole method. r is the one result of the one _sweep call.
play(x, y) ==
    \E r \in {sweep(board_size, game_board, visualization_board, seen_cells,
                   has_stepped_on_mine, x, y)} :
    LET lost == lost_test(r.stepped)
        won == won_test(r.seen, board_size, number_of_mines)
    IN  /\ visualization_board' = r.vb
        /\ seen_cells' = r.seen
        /\ has_stepped_on_mine' = r.stepped
        /\ game_over' = (game_over \/ lost \/ won)
        /\ output' = (IF game_over THEN << "Game is already over." >> ELSE << >>)
                     \o r.out
                     \o (IF lost THEN << "You lost the game." >> ELSE << >>)
                     \o (IF won THEN << "You won!" >> ELSE << >>)
        /\ UNCHANGED <<board_size, number_of_mines, game_board>>

\* The arguments a caller passes: every cell of the board, and one pair for
\* each disjunct of the range test of _sweep (x < 0, x >= size, y < 0, y >= size).
Args == all_indices(board_size)
        \cup {<<-1, 0>>, <<board_size, 0>>, <<0, -1>>, <<0, board_size>>}

Next == \E a \in Args : play(a[1], a[2]) /\ UNCHANGED driver

Spec == Init /\ [][Next]_vars

\* The status the fields stand for: in progress until _game_over is set, then
\* lost if a mine was stepped on and won otherwise.
gameStatus ==
    IF ~game_over THEN "InProgress"
    ELSE IF has_stepped_on_mine THEN "Lost" ELSE "Won"

Printed(msg) == \E i \in 1 .. Len(output) : output[i] = msg

TypeOK ==
    /\ board_size \in 1 .. MaxSize
    /\ seen_cells \in 0 .. board_size * board_size
    /\ \A c \in all_indices(board_size) :
          visualization_board[c] \in {"", "M"} \cup {str(k) : k \in 0 .. 8}

(***************************************************************************)
(* Vocabulary of the properties, stated without the work list.             *)
(***************************************************************************)
Cells == all_indices(board_size)
Hidden(c) == visualization_board[c] = ""
Digits == {str(k) : k \in 0 .. 8}
Abs(i) == IF i < 0 THEN -i ELSE i
Adjacent(c, d) == c # d /\ Abs(c[1] - d[1]) <= 1 /\ Abs(c[2] - d[2]) <= 1
TrueCount(c) == Cardinality({d \in Cells : Adjacent(c, d) /\ game_board[d]})
ZeroSafe(c) == ~game_board[c] /\ \A d \in Cells : Adjacent(c, d) => ~game_board[d]
AllMines == number_of_mines = board_size * board_size
Fields == <<visualization_board, seen_cells, has_stepped_on_mine>>

\* The zero-adjacency cells connected to the cells of S through zero cells.
RECURSIVE ZeroRegion(_)
ZeroRegion(S) ==
    LET T == S \cup {d \in Cells : ZeroSafe(d) /\ \E c \in S : Adjacent(c, d)}
    IN  IF T = S THEN S ELSE ZeroRegion(T)

\* The region of a zero cell together with the cells that border it.
RevealSet(c) ==
    LET R == ZeroRegion({c})
    IN  R \cup {d \in Cells : ~game_board[d] /\ TrueCount(d) # 0
                               /\ \E z \in R : Adjacent(z, d)}

\* C1: a play call made when the game is already over changes neither the
\* display grid, the count of seen cells, the detonation flag nor the status.
C1_TerminalPlayIsNoOp ==
    [][game_over => UNCHANGED <<Fields, game_over>>]_vars

\* C2: once the status is Won it stays Won, and once Lost it stays Lost.
C2_TerminalAbsorbing ==
    [][/\ gameStatus = "Won" => gameStatus' = "Won"
       /\ gameStatus = "Lost" => gameStatus' = "Lost"]_vars

\* C3: the game is Won exactly when seen_cells equals size*size - mines and no
\* mine was detonated, and no call reports both the win and the loss.
C3_WonIffAllSafeSeen ==
    /\ gameStatus = "Won" <=>
          (seen_cells = board_size * board_size - number_of_mines
           /\ ~has_stepped_on_mine)
    /\ ~(Printed("You won!") /\ Printed("You lost the game."))

\* C4: playing a hidden mine cell gives status Lost and shows every mine as "M";
\* a cell shows "M" only if it is a mine and a mine was detonated; the status
\* is Lost exactly when a mine was stepped on.
C4_MineRevealLoses ==
    /\ [](/\ \A c \in Cells : visualization_board[c] = "M"
                                 => game_board[c] /\ has_stepped_on_mine
          /\ gameStatus = "Lost" <=> has_stepped_on_mine)
    /\ [][\A c \in Cells :
            (game_board[c] /\ Hidden(c) /\ play(c[1], c[2]))
            => /\ gameStatus' = "Lost"
               /\ \A d \in Cells : game_board[d] => visualization_board'[d] = "M"]_vars

\* C4 witness: a lost game in which more than one mine is shown.
C4_Witness ==
    /\ gameStatus = "Lost"
    /\ Cardinality({c \in Cells : visualization_board[c] = "M"}) > 1
    /\ \E c \in Cells : ~game_board[c]

\* C5: while the game is in progress, a play outside the board changes nothing
\* and leaves the status InProgress, on every board.
C5_OutOfBoundsNoChange ==
    [][\A a \in Args :
         (~game_over /\ ~in_range(board_size, a[1], a[2]) /\ play(a[1], a[2]))
         => UNCHANGED Fields /\ gameStatus' = "InProgress"]_vars

\* C6: a play on a cell that is not hidden is rejected as already visited and
\* changes neither the grid, the count, the detonation flag nor the status.
C6_SecondRevealRejected ==
    [][\A c \in Cells :
         (~Hidden(c) /\ play(c[1], c[2]))
         => /\ UNCHANGED <<Fields, game_over>>
            /\ \E i \in DOMAIN output' : output'[i] = "Cell already visited."]_vars

\* C6 witness: a call has just been rejected because its cell was already shown.
C6_Witness == Printed("Cell already visited.")
\* C7: playing a hidden safe cell with no adjacent mine shows exactly the cells
\* of its connected zero-adjacency region and the safe cells bordering that
\* region; every other cell keeps the display value it had.
C7_CascadeRevealsExactlyRegion ==
    [][\A c \in Cells :
         (Hidden(c) /\ ZeroSafe(c) /\ play(c[1], c[2]))
         => \A d \in Cells :
               IF d \in RevealSet(c)
               THEN visualization_board'[d] = str(TrueCount(d))
               ELSE visualization_board'[d] = visualization_board[d]]_vars

\* C7 witness: a cascade has run and a safe cell beyond its frontier is hidden.
C7_Witness ==
    /\ \E c \in Cells : visualization_board[c] = "0"
    /\ \E c \in Cells : visualization_board[c] \in Digits \ {"0"}
    /\ \E d \in Cells : ~game_board[d] /\ Hidden(d)

\* C8: every cell that shows a count is not a mine and shows the number of
\* mines among its in-range 8 neighbours; a mine never shows a count.
C8_CountIsTrueAdjacency ==
    \A c \in Cells :
        /\ visualization_board[c] \in Digits
              => ~game_board[c] /\ visualization_board[c] = str(TrueCount(c))
        /\ game_board[c] => visualization_board[c] \notin Digits

\* C8 witness: a shown count includes a mine on the (+1, +1) diagonal.
C8_Witness ==
    \E c \in Cells :
        /\ visualization_board[c] \in Digits
        /\ <<c[1] + 1, c[2] + 1>> \in Cells
        /\ game_board[<<c[1] + 1, c[2] + 1>>]

\* C9: a board whose every cell is a mine starts InProgress, and every play
\* on one of its cells leaves the status Lost.
C9_AllMinesImmediateLoss ==
    /\ AllMines => gameStatus = "InProgress"
    /\ [][\A c \in Cells :
            (AllMines /\ play(c[1], c[2])) => gameStatus' = "Lost"]_vars

\* C9 witness: a board of more than one cell, all mines, lost.
C9_Witness ==
    AllMines /\ board_size > 1 /\ gameStatus = "Lost"
             /\ \A c \in Cells : visualization_board[c] = "M"

\* C10: on a board without mines the first play on a cell shows every cell as
\* "0" and makes the status Won.
C10_NoMinesFirstPlayWins ==
    [][\A c \in Cells :
         (number_of_mines = 0 /\ (\A d \in Cells : Hidden(d)) /\ play(c[1], c[2]))
         => /\ \A d \in Cells : visualization_board'[d] = "0"
            /\ gameStatus' = "Won"]_vars

\* C10 witness: a board of more than one cell, no mines, fully shown and won.
C10_Witness ==
    /\ number_of_mines = 0 /\ board_size > 1
    /\ \A d \in Cells : visualization_board[d] = "0"
    /\ gameStatus = "Won"
\* C11: construction leaves every cell hidden, seen_cells 0 and the status
\* InProgress; afterwards no play call changes the mine layout, which always
\* has exactly number_of_mines mines.
C11_ConstructionAndFixedLayout ==
    /\ (\A c \in Cells : Hidden(c)) /\ seen_cells = 0 /\ gameStatus = "InProgress"
    /\ [](/\ DOMAIN game_board = Cells
          /\ Cardinality({c \in Cells : game_board[c]}) = number_of_mines)
    /\ [][game_board' = game_board]_vars

\* C11 witness: a board with mines and safe cells on which a mine was stepped on
\* and a safe cell was shown.
C11_Witness ==
    /\ number_of_mines > 1 /\ number_of_mines < board_size * board_size
    /\ has_stepped_on_mine /\ seen_cells > 0
    /\ Cardinality({c \in Cells : game_board[c]}) = number_of_mines

\* C14: seen_cells equals the number of cells that show a count, and so never
\* exceeds size*size - number_of_mines, also after the game is over.
C14_SeenCountsShownCells ==
    /\ seen_cells = Cardinality({c \in Cells : visualization_board[c] \in Digits})
    /\ seen_cells <= board_size * board_size - number_of_mines

\* C14 witness: a lost game in which every safe cell was shown afterwards.
C14_Witness ==
    /\ has_stepped_on_mine /\ number_of_mines > 0 /\ board_size > 1
    /\ seen_cells = board_size * board_size - number_of_mines
    /\ seen_cells > 1
    /\ \E c \in Cells : visualization_board[c] = "0"

\* C15: a cell that is not hidden never changes again: a count stays the same
\* count and "M" stays "M", so a cell leaves "" at most once.
C15_DisplayMonotonic ==
    [][\A c \in Cells :
         ~Hidden(c) => visualization_board'[c] = visualization_board[c]]_vars

\* C15 witness: counts and mines are shown side by side.
C15_Witness ==
    /\ \E c \in Cells : visualization_board[c] \in Digits
    /\ \E c \in Cells : visualization_board[c] = "M"
    /\ \E c \in Cells : Hidden(c)

\* C18: between calls, every in-range neighbour of a cell that shows "0" is
\* shown as well.
C18_NoPartialCascade ==
    \A c \in Cells :
        visualization_board[c] = "0"
            => \A d \in Cells : Adjacent(c, d) => ~Hidden(d)

\* C18 witness: a game in progress with a finished cascade and a hidden safe cell.
C18_Witness ==
    /\ gameStatus = "InProgress"
    /\ \E c \in Cells : visualization_board[c] = "0"
    /\ \E d \in Cells : ~game_board[d] /\ Hidden(d)

\* C19: a _sweep call on a hidden cell detonates a mine exactly when the chosen
\* cell is a mine; such a call shows no safe cell, leaves seen_cells alone, and
\* no call returns with cells left on its work list.
C19_CascadeNeverReachesMine ==
    \A a \in Cells :
        Hidden(a) =>
            \E r \in {sweep(board_size, game_board, visualization_board,
                            seen_cells, FALSE, a[1], a[2])} :
                /\ r.cells_to_sweep = << >>
                /\ r.stepped <=> game_board[a]
                /\ r.stepped =>
                      /\ r.seen = seen_cells
                      /\ \A d \in Cells :
                            ~game_board[d] => r.vb[d] = visualization_board[d]

\* C19 witness: a cascade has run next to a hidden mine on the (+1, +1)
\* diagonal of a shown cell, and the game is still in progress.
C19_Witness ==
    /\ ~game_over
    /\ \E c \in Cells : visualization_board[c] = "0"
    /\ \E c \in Cells :
          /\ visualization_board[c] \in Digits
          /\ <<c[1] + 1, c[2] + 1>> \in Cells
          /\ game_board[<<c[1] + 1, c[2] + 1>>]
          /\ Hidden(<<c[1] + 1, c[2] + 1>>)
\* The work-list loop with the other discipline: take the first element
\* (a FIFO queue) where the program takes the last.
RECURSIVE sweep_loop_fifo(_, _, _)
sweep_loop_fifo(n, gb, st) ==
    IF st.cells_to_sweep = << >> THEN st
    ELSE LET c == Head(st.cells_to_sweep)
             rest == Tail(st.cells_to_sweep)
         IN  IF gb[c] THEN step_on_mine(gb, st, rest)
             ELSE IF ~(st.vb[c] = "")
                  THEN sweep_loop_fifo(n, gb, [st EXCEPT !.cells_to_sweep = rest])
                  ELSE sweep_loop_fifo(n, gb, sweep_cell(n, gb, st, c, rest))

\* C16: from every reachable state and for every hidden start cell, the stack
\* loop of the program and the queue loop leave the same grid, the same
\* seen_cells, the same detonation flag and so the same status.
C16_WorkListOrderIrrelevant ==
    \A a \in Cells :
        Hidden(a) =>
            LET st0 == [vb |-> visualization_board, seen |-> seen_cells,
                        stepped |-> has_stepped_on_mine,
                        cells_to_sweep |-> << a >>, out |-> << >>]
            IN  \E r \in {sweep(board_size, game_board, visualization_board,
                                seen_cells, has_stepped_on_mine, a[1], a[2])},
                   q \in {sweep_loop_fifo(board_size, game_board, st0)} :
                    /\ r.vb = q.vb
                    /\ r.seen = q.seen
                    /\ r.stepped = q.stepped
                    /\ won_test(r.seen, board_size, number_of_mines)
                         = won_test(q.seen, board_size, number_of_mines)

\* C16 witness: a 3 x 3 board with mines on which a cascade ran over several
\* zero cells, where the two disciplines visit the cells in different orders.
C16_Witness ==
    /\ board_size >= 3 /\ number_of_mines >= 1
    /\ Cardinality({c \in Cells : visualization_board[c] = "0"}) >= 3
    /\ \E c \in Cells : visualization_board[c] \in Digits \ {"0"}
(***************************************************************************)
(* The __main__ block: the prompt for the board, then the prompt loop.     *)
(***************************************************************************)

\* Largest integer typed at a prompt.
MaxInput == 2

\* The tokens a line splits into: the integers 0..MaxInput, a negative number,
\* a word, and "^2", which stands for the character U+00B2 (superscript two).
Tokens == {str(k) : k \in 0 .. MaxInput} \cup {"-1", "x", "^2"}

\* user_inputs.split(): no token, one, two, or three.
Lines == {<< >>} \cup {<<t>> : t \in Tokens}
         \cup {<<t, u>> : t \in Tokens, u \in Tokens}
         \cup {<<t, t, t>> : t \in Tokens}

\* str.isdigit(): every character is a digit; U+00B2 counts as one.
isdigit(t) == t \in {str(k) : k \in 0 .. 8} \cup {"^2"}

\* int(t) returns for decimal literals and raises ValueError otherwise.
int_returns(t) == t \in {str(k) : k \in 0 .. 8} \cup {"-1"}
int(t) == IF t = "-1" THEN -1 ELSE CHOOSE k \in 0 .. 8 : str(k) = t

\* The condition of the first while loop, evaluated left to right.
config_test(ind) ==
    IF ~(Len(ind) = 2) THEN "reprompt"
    ELSE IF ~isdigit(ind[1]) THEN "reprompt"
    ELSE IF ~isdigit(ind[2]) THEN "reprompt"
    ELSE IF ~int_returns(ind[1]) THEN "raise"
    ELSE IF int(ind[1]) <= 0 THEN "reprompt"
    ELSE IF ~int_returns(ind[2]) THEN "raise"
    ELSE IF int(ind[2]) < 0 THEN "reprompt"
    ELSE "construct"

\* random.sample(all_indices, number_of_mines) raises ValueError when the
\* sample is larger than the population.
sample_returns(n, m) == m <= n * n

\* MineSweeper(n, m) when random.sample returns.
construct(n, m) ==
    /\ board_size' = n
    /\ number_of_mines' = m
    /\ game_board' \in { g \in [all_indices(n) -> BOOLEAN] :
                           Cardinality({c \in DOMAIN g : g[c]}) = m }
    /\ visualization_board' = [c \in all_indices(n) |-> ""]
    /\ seen_cells' = 0
    /\ has_stepped_on_mine' = FALSE
    /\ game_over' = FALSE
    /\ output' = << >>

\* MineSweeper(n, m) when random.sample raises: the fields assigned before
\* the call keep their values, the rest was never assigned.
construct_raises(n, m) ==
    /\ board_size' = n
    /\ number_of_mines' = m
    /\ game_board' = [c \in all_indices(n) |-> FALSE]
    /\ UNCHANGED <<visualization_board, seen_cells, has_stepped_on_mine,
                   game_over, output>>

engine == <<board_size, number_of_mines, game_board, visualization_board,
            seen_cells, has_stepped_on_mine, game_over, output>>

\* Before m = MineSweeper(...) there is no object.
InitMain ==
    /\ board_size = 0
    /\ number_of_mines = 0
    /\ game_board = << >>
    /\ visualization_board = << >>
    /\ seen_cells = 0
    /\ has_stepped_on_mine = FALSE
    /\ game_over = FALSE
    /\ output = << >>
    /\ pc = "config"
    /\ indices = << >>
    /\ branch = "none"
    /\ cells_to_sweep = << >>
    /\ accepted = 0

\* One line read at the first prompt: re-prompt, or leave the loop and construct.
ReadConfig(line) ==
    /\ pc = "config"
    /\ indices' = line
    /\ UNCHANGED <<cells_to_sweep, accepted>>
    /\ \/ /\ config_test(line) = "reprompt"
          /\ pc' = "config" /\ branch' = "reprompt"
          /\ UNCHANGED engine
       \/ /\ config_test(line) = "raise"
          /\ pc' = "crashed" /\ branch' = "config_raise"
          /\ UNCHANGED engine
       \/ /\ config_test(line) = "construct"
          /\ sample_returns(int(line[1]), int(line[2]))
          /\ construct(int(line[1]), int(line[2]))
          /\ pc' = "loop" /\ branch' = "construct"
       \/ /\ config_test(line) = "construct"
          /\ ~sample_returns(int(line[1]), int(line[2]))
          /\ construct_raises(int(line[1]), int(line[2]))
          /\ pc' = "crashed" /\ branch' = "construct_raise"

\* while not m.game_over
loop_test_always(go) == TRUE
loop_test(go) == ~go

\* The two tests of the loop body and the int() calls of the play call.
move_test(ind) ==
    IF ~(Len(ind) = 2) THEN "reject"
    ELSE IF ~isdigit(ind[1]) \/ ~isdigit(ind[2]) THEN "reject"
    ELSE IF ~int_returns(ind[1]) \/ ~int_returns(ind[2]) THEN "raise"
    ELSE "play"

\* One iteration of the prompt loop.
ReadMove(line) ==
    /\ pc = "loop"
    /\ loop_test(game_over)
    /\ indices' = line
    /\ UNCHANGED <<cells_to_sweep, accepted>>
    /\ \/ /\ move_test(line) = "reject"
          /\ pc' = "loop" /\ branch' = "reject"
          /\ UNCHANGED engine
       \/ /\ move_test(line) = "raise"
          /\ pc' = "crashed" /\ branch' = "move_raise"
          /\ UNCHANGED engine
       \/ /\ move_test(line) = "play"
          /\ play(int(line[1]), int(line[2]))
          /\ pc' = "loop" /\ branch' = "play"

\* The loop test fails: the program ends.
Exit ==
    /\ pc = "loop"
    /\ ~loop_test(game_over)
    /\ pc' = "done" /\ branch' = "exit"
    /\ UNCHANGED <<engine, indices, cells_to_sweep, accepted>>

NextMain ==
    \/ \E line \in Lines : ReadConfig(line)
    \/ \E line \in Lines : ReadMove(line)
    \/ Exit

SpecMain == InitMain /\ [][NextMain]_vars

\* The lines the prompts are meant to accept: two non-negative integers.
NonNegInt(t) == t \in {str(k) : k \in 0 .. MaxInput}
TwoNonNegInts(ind) == Len(ind) = 2 /\ NonNegInt(ind[1]) /\ NonNegInt(ind[2])

\* C12: at the first prompt a malformed or out-of-range line, a mine count
\* above size*size included, is re-prompted: the program neither raises there
\* nor calls the constructor with mines > size*size, size <= 0 or mines < 0.
C12_ConfigRejectedByReprompt ==
    /\ branch \notin {"config_raise", "construct_raise"}
    /\ number_of_mines <= board_size * board_size
    /\ pc # "config" => board_size > 0 /\ number_of_mines >= 0

\* C13: in the prompt loop no play call is made once game_over is true, and a
\* line that is not two non-negative integers leads to no play call and no
\* change of the game.
C13_LoopStopsAndRejects ==
    [][/\ game_over => branch' # "play" /\ UNCHANGED engine
       /\ (pc = "loop" /\ ~TwoNonNegInts(indices'))
             => branch' # "play" /\ UNCHANGED engine]_vars

\* C13 witness: the loop has ended after a game in which cells were shown and
\* the last line read was a move.
C13_Witness ==
    /\ pc = "done" /\ game_over /\ seen_cells > 0
    /\ board_size > 1 /\ TwoNonNegInts(indices)
(***************************************************************************)
(* play and _sweep run one loop iteration at a time.                       *)
(***************************************************************************)

\* The entry of play and the two early returns of _sweep; otherwise the work
\* list is set to the chosen cell.
SweepCall(x, y) ==
    /\ pc = "idle"
    /\ LET pre == IF game_over THEN << "Game is already over." >> ELSE << >>
       IN  IF ~in_range(board_size, x, y)
           THEN /\ output' = pre \o << "Invalid entries." >>
                /\ pc' = "return"
                /\ cells_to_sweep' = << >>
           ELSE IF already_visited(visualization_board, x, y)
           THEN /\ output' = pre \o << "Cell already visited." >>
                /\ pc' = "return"
                /\ cells_to_sweep' = << >>
           ELSE /\ output' = pre
                /\ pc' = "loop"
                /\ cells_to_sweep' = << <<x, y>> >>
    /\ UNCHANGED <<board_size, number_of_mines, game_board, visualization_board,
                   seen_cells, has_stepped_on_mine, game_over,
                   indices, branch, accepted>>

\* One iteration of the while loop; the mine branch returns from _sweep.
SweepStep ==
    /\ pc = "loop"
    /\ cells_to_sweep # << >>
    /\ \E s \in {loop_body(board_size, game_board,
                           [vb |-> visualization_board, seen |-> seen_cells,
                            stepped |-> has_stepped_on_mine,
                            cells_to_sweep |-> cells_to_sweep, out |-> << >>])} :
          /\ visualization_board' = s.vb
          /\ seen_cells' = s.seen
          /\ has_stepped_on_mine' = s.stepped
          /\ cells_to_sweep' = s.cells_to_sweep
    /\ pc' = IF game_board[cells_to_sweep[Len(cells_to_sweep)]]
             THEN "return" ELSE "loop"
    /\ UNCHANGED <<board_size, number_of_mines, game_board, game_over, output,
                   indices, branch, accepted>>

\* _sweep has returned (early, on a mine, or with the work list empty): the
\* two tests at the end of play.
PlayReturn ==
    /\ pc = "return" \/ (pc = "loop" /\ cells_to_sweep = << >>)
    /\ LET lost == lost_test(has_stepped_on_mine)
           won == won_test(seen_cells, board_size, number_of_mines)
       IN  /\ game_over' = (game_over \/ lost \/ won)
           /\ output' = output
                        \o (IF lost THEN << "You lost the game." >> ELSE << >>)
                        \o (IF won THEN << "You won!" >> ELSE << >>)
    /\ pc' = "idle"
    /\ cells_to_sweep' = << >>
    /\ UNCHANGED <<board_size, number_of_mines, game_board, visualization_board,
                   seen_cells, has_stepped_on_mine, indices, branch, accepted>>

NextSweep ==
    \/ \E a \in Args : SweepCall(a[1], a[2])
    \/ SweepStep
    \/ PlayReturn

\* The code is sequential: a call that has started keeps running.
SpecSweep ==
    Init /\ [][NextSweep]_vars /\ WF_vars(SweepStep) /\ WF_vars(PlayReturn)

\* C17: no call runs forever: whenever a call is running, its work-list loop
\* ends and play returns (pc is "idle" again and again); within the loop a cell
\* is written only while it is hidden, one count at a time, so no cell is
\* marked twice in a call however often it was pushed, and every iteration
\* either shows a hidden cell or shortens the work list.
C17_SweepTerminates ==
    /\ [][pc = "loop" =>
            /\ \A c \in Cells :
                  visualization_board'[c] # visualization_board[c] => Hidden(c)
            /\ seen_cells' - seen_cells =
                  Cardinality({c \in Cells : Hidden(c)
                                   /\ visualization_board'[c] \in Digits})
            /\ seen_cells' - seen_cells <= 1]_vars
    /\ [][(pc = "loop" /\ pc' = "loop") =>
            \/ \E c \in Cells : Hidden(c) /\ visualization_board'[c] # ""
            \/ /\ visualization_board' = visualization_board
               /\ Len(cells_to_sweep') < Len(cells_to_sweep)]_vars
    /\ []<>(pc = "idle")

\* C17 witness: the work list holds the same hidden cell more than once.
C17_Witness ==
    /\ pc = "loop"
    /\ \E i, j \in DOMAIN cells_to_sweep :
          i < j /\ cells_to_sweep[i] = cells_to_sweep[j] /\ Hidden(cells_to_sweep[i])
(***************************************************************************)
(* play called directly, with the accepted reveals counted.                *)
(***************************************************************************)

\* A reveal is accepted when the game is in progress and the cell is in range
\* and still hidden.
is_accepted(x, y) ==
    /\ ~game_over
    /\ in_range(board_size, x, y)
    /\ ~already_visited(visualization_board, x, y)

PlayCounted(x, y) ==
    /\ play(x, y)
    /\ accepted' = accepted + (IF is_accepted(x, y) THEN 1 ELSE 0)
    /\ UNCHANGED <<pc, indices, branch, cells_to_sweep>>

NextCount == \E a \in Args : PlayCounted(a[1], a[2])

SpecCount == Init /\ [][NextCount]_vars

\* C20: a play on a hidden cell of a game in progress either increases
\* seen_cells or makes the status Lost, and no game is still in progress after
\* size*size accepted reveals.
C20_AcceptedRevealProgress ==
    /\ [](/\ accepted <= board_size * board_size
          /\ accepted >= board_size * board_size => game_over)
    /\ [][\A c \in Cells :
            (~game_over /\ Hidden(c) /\ play(c[1], c[2]))
            => seen_cells' > seen_cells \/ gameStatus' = "Lost"]_vars

\* C20 witness: a game that ended only after several accepted reveals.
C20_Witness ==
    /\ game_over /\ accepted >= 3
    /\ accepted = seen_cells + (IF has_stepped_on_mine THEN 1 ELSE 0)
====
